---- MODULE Spec2Model ----
(***************************************************************************)
(* A model of src/main.cpp: the SDL/OpenGL viewer of a sun, an orbiting    *)
(* planet and its moon.                                                    *)
(*                                                                         *)
(* Numbers.  The program's floats are modelled in fixed point, in tenths:  *)
(* an angle of 0.5 degrees is 5, a zoom of 2.1 is 21.  Every float the     *)
(* claims are about is a small multiple of 0.5 or of 0.1; the comparisons  *)
(* of the code (>= 360, < MIN_ZOOM, > 40, < 0.5) are kept as written, in   *)
(* tenths.  Times are SDL_GetTicks milliseconds.  The planet's position    *)
(* (orbitRadius*cos a, orbitRadius*sin a) is kept as the angle a it was    *)
(* computed from.                                                          *)
(*                                                                         *)
(* Environment.  SDL_PollEvent returns either an event drawn from the      *)
(* environment's alphabet or "no event"; SDL_GetTicks returns a value that *)
(* never decreases; every library call that can fail may fail.             *)
(***************************************************************************)
EXTENDS Integers, Sequences, FiniteSets, TLC

VARIABLES
    pc,                  \* position of main()
    status,              \* exit status of the process, -1 while it runs
    acquired,            \* resources acquired, in order of acquisition
    releaseLog,          \* resources released, in order of release
    loaded,              \* number of textures loaded so far
    created,             \* the moon, planet and sun objects exist
    failure,             \* the library call that failed, "none" if none did
    running,             \* main: bool running
    event,               \* main: SDL_Event event, the last event polled
    polled,              \* events returned by SDL_PollEvent in this drain
    frames,              \* loop iterations started
    frameLog,            \* steps of the current iteration performed so far
    camera,              \* the last gluLookAt: position angle and zoom
    moonOrbitAngle,      \* Moon::orbitAngle
    rotationY,           \* Planet::rotationY, the passive spin
    orbitAngle,          \* Planet::orbitAngle
    positionAngle,       \* the angle Planet::positionX/positionZ were computed from
    userRotationX,       \* Planet::userRotationX
    userRotationY,       \* Planet::userRotationY
    zoom,                \* Planet::zoom
    sphereRotationX,     \* global drag accumulator
    sphereRotationY,     \* global drag accumulator
    dragging,            \* global
    lastMouseX,          \* global
    lastMouseY,          \* global
    lastInteractionTime, \* global
    now,                 \* the last value SDL_GetTicks returned
    decaySteps           \* Planet::update calls that took the decay branch since
                         \* the last drag motion

procVars  == <<pc, status, acquired, releaseLog, loaded, created, failure>>
loopVars  == <<running, event, polled, frames, frameLog, camera>>
bodyVars  == <<moonOrbitAngle, rotationY, orbitAngle, positionAngle,
               userRotationX, userRotationY, zoom>>
inputVars == <<sphereRotationX, sphereRotationY, dragging, lastMouseX,
               lastMouseY, lastInteractionTime>>
envVars   == <<now, decaySteps>>
vars      == <<procVars, loopVars, bodyVars, inputVars, envVars>>

----------------------------------------------------------------------------
(* Program constants, in tenths where they are floats.                     *)
MIN_ZOOM == 21
MAX_ZOOM == 200
INIT_ZOOM == 50
ZOOM_STEP == 5
RETURN_TO_ORIGINAL_DELAY == 2000
FULL_TURN == 3600
MOON_STEP == 5
passiveRotationSpeed == 1
orbitSpeed == 1
MAX_TILT == 400
DRAG_SCALE == 5
DECAY_STEP == 5
NUM_TEXTURES == 5
EXIT_FAILURE == 1
EXIT_SUCCESS == 0

(* Bounds of the model.                                                    *)
MaxFrames == 2
MaxPoll == 2
MaxIdleFrames == 82
MaxSpinFrames == 3601
InteractFrames == 1
MaxRotY == 250
MaxTimeSteps == 1

MouseXs == {100, 150}
MouseYs == {100, 130}
DecayMouseYs == {100, 101, 230}
IdleMouseYs == {100, 180}
TimeSteps == {0, 2000}
WheelYs == {-1, 0, 1}
Buttons == {"LEFT", "RIGHT"}
BytesPerPixel == {1, 3, 4}
ImgFlags == {"PNG", "JPG"}

----------------------------------------------------------------------------
(* Events.                                                                 *)
QuitEvent == [type |-> "QUIT"]
OtherEvent == [type |-> "KEYDOWN"]
NoEvent == [type |-> "NONE"]
MotionEvents(xs, ys) == {[type |-> "MOUSEMOTION", x |-> x, y |-> y] : x \in xs, y \in ys}
ButtonDownEvents(bs, xs, ys) ==
    {[type |-> "MOUSEBUTTONDOWN", button |-> b, x |-> x, y |-> y] :
        b \in bs, x \in xs, y \in ys}
ButtonUpEvents == {[type |-> "MOUSEBUTTONUP", button |-> b] : b \in Buttons}
WheelEvents == {[type |-> "MOUSEWHEEL", y |-> y] : y \in WheelYs}
\* motion and the left button at every position, the right button at one
MouseEvents(xs, ys) ==
    MotionEvents(xs, ys) \cup ButtonDownEvents({"LEFT"}, xs, ys)
        \cup ButtonDownEvents({"RIGHT"}, {100}, {100}) \cup ButtonUpEvents

----------------------------------------------------------------------------
(* Pure helpers.                                                           *)
Abs(x) == IF x < 0 THEN -x ELSE x

Count(seq, x) == Cardinality({i \in 1..Len(seq) : seq[i] = x})

Reverse(seq) == [i \in 1..Len(seq) |-> seq[Len(seq) + 1 - i]]

\* mutant: the wrap tests > instead of >=
Wrap360_Strict(a) == IF a > FULL_TURN THEN a - FULL_TURN ELSE a

\* if (a >= 360.0f) a -= 360.0f;
Wrap360(a) == IF a >= FULL_TURN THEN a - FULL_TURN ELSE a

\* mutant: the upper clamp is missing
ClampZoom_NoMax(z) == IF z < MIN_ZOOM THEN MIN_ZOOM ELSE z

\* if (zoom < MIN_ZOOM) zoom = MIN_ZOOM; if (zoom > MAX_ZOOM) zoom = MAX_ZOOM;
ClampZoom(z) ==
    LET z1 == IF z < MIN_ZOOM THEN MIN_ZOOM ELSE z
    IN  IF z1 > MAX_ZOOM THEN MAX_ZOOM ELSE z1

\* if (x > 40.0f) x = 40.0f; if (x < -40.0f) x = -40.0f;
ClampRotX(x) ==
    LET x1 == IF x > MAX_TILT THEN MAX_TILT ELSE x
    IN  IF x1 < -MAX_TILT THEN -MAX_TILT ELSE x1

\* currentTime - lastInteractionTime >= RETURN_TO_ORIGINAL_DELAY
IdleElapsed(t, last) == t - last >= RETURN_TO_ORIGINAL_DELAY

\* mutant: the step is subtracted whatever the sign
DecayX_OneWay(x) ==
    LET x1 == x - DECAY_STEP
    IN  IF Abs(x1) < DECAY_STEP THEN 0 ELSE x1

\* the body of the decay: two steps and the snap, in the code's order
DecayX(x) ==
    LET x1 == IF x > 0 THEN x - DECAY_STEP ELSE x
        x2 == IF x1 < 0 THEN x1 + DECAY_STEP ELSE x1
    IN  IF Abs(x2) < DECAY_STEP THEN 0 ELSE x2

\* Planet::setRotation
setRotation(s, rotX, rotY) ==
    [s EXCEPT !.userRotationX = rotX, !.userRotationY = rotY]

\* the values SDL_GetTicks may return next
Ticks == {t \in {now + d : d \in TimeSteps} : t <= MaxTimeSteps * 2000}

----------------------------------------------------------------------------
(* handleInput, on the record of the state it reads and writes.            *)
InputState ==
    [running |-> running, zoom |-> zoom,
     userRotationX |-> userRotationX, userRotationY |-> userRotationY,
     sphereRotationX |-> sphereRotationX, sphereRotationY |-> sphereRotationY,
     dragging |-> dragging, lastMouseX |-> lastMouseX, lastMouseY |-> lastMouseY,
     lastInteractionTime |-> lastInteractionTime]

OnQuit(s) == [s EXCEPT !.running = FALSE]

\* mutant: the drag continues from the planet's present rotation
OnMouseMotion_FromPlanet(s, e, t) ==
    IF s.dragging
    THEN LET dx == e.x - s.lastMouseX
             dy == e.y - s.lastMouseY
             ry == s.userRotationY + dx * DRAG_SCALE
             rx == ClampRotX(s.userRotationX - dy * DRAG_SCALE)
             s1 == [s EXCEPT !.sphereRotationY = ry, !.sphereRotationX = rx,
                             !.lastMouseX = e.x, !.lastMouseY = e.y]
         IN  [setRotation(s1, rx, ry) EXCEPT !.lastInteractionTime = t]
    ELSE s

OnMouseMotion(s, e, t) ==
    IF s.dragging
    THEN LET dx == e.x - s.lastMouseX
             dy == e.y - s.lastMouseY
             ry == s.sphereRotationY + dx * DRAG_SCALE
             rx == ClampRotX(s.sphereRotationX - dy * DRAG_SCALE)
             s1 == [s EXCEPT !.sphereRotationY = ry, !.sphereRotationX = rx,
                             !.lastMouseX = e.x, !.lastMouseY = e.y]
         IN  [setRotation(s1, rx, ry) EXCEPT !.lastInteractionTime = t]
    ELSE s

\* mutant: a new drag session starts from cleared accumulators
OnMouseButtonDown_Reset(s, e) ==
    IF e.button = "LEFT"
    THEN [s EXCEPT !.dragging = TRUE, !.lastMouseX = e.x, !.lastMouseY = e.y,
                   !.sphereRotationX = 0, !.sphereRotationY = 0]
    ELSE s

OnMouseButtonDown(s, e) ==
    IF e.button = "LEFT"
    THEN [s EXCEPT !.dragging = TRUE, !.lastMouseX = e.x, !.lastMouseY = e.y]
    ELSE s

OnMouseButtonUp(s, e) ==
    IF e.button = "LEFT" THEN [s EXCEPT !.dragging = FALSE] ELSE s

OnMouseWheel(s, e) ==
    LET z == IF e.y > 0 THEN s.zoom - ZOOM_STEP
             ELSE IF e.y < 0 THEN s.zoom + ZOOM_STEP
             ELSE s.zoom
    IN  [s EXCEPT !.zoom = ClampZoom(z)]

handleInput(s, e, t) ==
    CASE e.type = "QUIT" -> OnQuit(s)
      [] e.type = "MOUSEMOTION" -> OnMouseMotion(s, e, t)
      [] e.type = "MOUSEBUTTONDOWN" -> OnMouseButtonDown(s, e)
      [] e.type = "MOUSEBUTTONUP" -> OnMouseButtonUp(s, e)
      [] e.type = "MOUSEWHEEL" -> OnMouseWheel(s, e)
      [] OTHER -> s

----------------------------------------------------------------------------
Init ==
    /\ pc = "SDL_Init"
    /\ status = -1
    /\ acquired = <<>>
    /\ releaseLog = <<>>
    /\ loaded = 0
    /\ created = FALSE
    /\ failure = "none"
    /\ running = TRUE
    /\ event = NoEvent
    /\ polled = 0
    /\ frames = 0
    /\ frameLog = <<>>
    /\ camera = [angle |-> 0, zoom |-> 0]
    /\ moonOrbitAngle = 0
    /\ rotationY = 0
    /\ orbitAngle = 0
    /\ positionAngle = 0
    /\ userRotationX = 0
    /\ userRotationY = 0
    /\ zoom = INIT_ZOOM
    /\ sphereRotationX = 0
    /\ sphereRotationY = 0
    /\ dragging = FALSE
    /\ lastMouseX = 0
    /\ lastMouseY = 0
    /\ lastInteractionTime = 0
    /\ now = 0
    /\ decaySteps = 0

----------------------------------------------------------------------------
(* Start-up: initSDL, initOpenGL, IMG_Init, loadTexture, the constructors. *)

\* exit(1): the process ends where it stands, nothing is released
Exit1(what) ==
    /\ pc' = "exited"
    /\ status' = EXIT_FAILURE
    /\ failure' = what
    /\ UNCHANGED <<acquired, releaseLog, loaded, created>>

\* cleanup(window, context)
cleanup(log) == log \o <<"context", "window", "sdl">>

SDL_Init ==
    /\ pc = "SDL_Init"
    /\ \E ok \in BOOLEAN :
         IF ok
         THEN /\ acquired' = Append(acquired, "sdl")
              /\ pc' = "SDL_CreateWindow"
              /\ UNCHANGED <<status, releaseLog, loaded, created, failure>>
         ELSE Exit1("SDL_Init")
    /\ UNCHANGED <<loopVars, bodyVars, inputVars, envVars>>

SDL_CreateWindow ==
    /\ pc = "SDL_CreateWindow"
    /\ \E ok \in BOOLEAN :
         IF ok
         THEN /\ acquired' = Append(acquired, "window")
              /\ pc' = "SDL_GL_CreateContext"
              /\ UNCHANGED <<status, releaseLog, loaded, created, failure>>
         ELSE Exit1("SDL_CreateWindow")
    /\ UNCHANGED <<loopVars, bodyVars, inputVars, envVars>>

\* SDL_GL_CreateContext, then SDL_GL_SetSwapInterval (a warning at most) and
\* initOpenGL (fixed-function state only)
SDL_GL_CreateContext ==
    /\ pc = "SDL_GL_CreateContext"
    /\ \E ok \in BOOLEAN :
         IF ok
         THEN /\ acquired' = Append(acquired, "context")
              /\ pc' = "IMG_Init"
              /\ UNCHANGED <<status, releaseLog, loaded, created, failure>>
         ELSE Exit1("SDL_GL_CreateContext")
    /\ UNCHANGED <<loopVars, bodyVars, inputVars, envVars>>

\* !(IMG_Init(PNG | JPG) & (PNG | JPG))
ImgInitFailed(flags) == flags \cap ImgFlags = {}

IMG_Init ==
    /\ pc = "IMG_Init"
    /\ \E flags \in SUBSET ImgFlags :
         IF ImgInitFailed(flags)
         THEN /\ releaseLog' = cleanup(releaseLog)
              /\ pc' = "exited"
              /\ status' = EXIT_FAILURE
              /\ failure' = IF flags = {} THEN "IMG_Init" ELSE failure
              /\ UNCHANGED <<acquired, loaded, created>>
         ELSE /\ acquired' = Append(acquired, "img")
              /\ pc' = "loadTexture"
              /\ failure' = IF flags = {} THEN "IMG_Init" ELSE failure
              /\ UNCHANGED <<status, releaseLog, loaded, created>>
    /\ UNCHANGED <<loopVars, bodyVars, inputVars, envVars>>

\* mutant: the final else (unsupported format) is missing
SupportedFormat_Any(bpp) == bpp >= 1

\* BytesPerPixel == 3 (GL_RGB) or == 4 (GL_RGBA)
SupportedFormat(bpp) == bpp = 3 \/ bpp = 4

\* one call of loadTexture; the surface is freed before it returns or exits
\* on a format error, and is not freed when IMG_Load returned none
loadTexture ==
    /\ pc = "loadTexture"
    /\ loaded < NUM_TEXTURES
    /\ \E surface \in BOOLEAN, bpp \in BytesPerPixel :
         IF ~surface
         THEN Exit1("IMG_Load")
         ELSE IF SupportedFormat(bpp)
         THEN /\ acquired' = Append(acquired, "texture")
              /\ loaded' = loaded + 1
              /\ failure' = IF bpp \in {3, 4} THEN failure ELSE "format"
              /\ UNCHANGED <<pc, status, releaseLog, created>>
         ELSE Exit1("format")
    /\ UNCHANGED <<loopVars, bodyVars, inputVars, envVars>>

\* new Moon, Planet planet, Sun sun, bool running = true
CreateBodies ==
    /\ pc = "loadTexture"
    /\ loaded = NUM_TEXTURES
    /\ acquired' = Append(acquired, "moon")
    /\ created' = TRUE
    /\ running' = TRUE
    /\ pc' = "loopTop"
    /\ UNCHANGED <<status, releaseLog, loaded, failure>>
    /\ UNCHANGED <<event, polled, frames, frameLog, camera>>
    /\ UNCHANGED <<bodyVars, inputVars, envVars>>

----------------------------------------------------------------------------
(* The main loop.  An environment env gives the alphabet SDL_PollEvent     *)
(* draws from and the bounds on the run: events, maxPoll (events per       *)
(* drain), maxFrames (iterations), interactFrames (the iterations in which *)
(* the user still acts).  With countPolls false a drain may be of any      *)
(* length and polled stays 0.                                              *)

FullFrame ==
    <<"drain", "planetUpdate", "sunUpdate", "camera", "sunRender",
      "planetRender", "present">>

\* the longest decay: 40 degrees in steps of 0.5
DecayTicks == MAX_TILT \div DECAY_STEP

\* while (running)
LoopTop(env) ==
    /\ pc = "loopTop"
    /\ IF running
       THEN /\ frames < env.maxFrames
            /\ frames' = frames + 1
            /\ polled' = 0
            /\ frameLog' = <<>>
            /\ pc' = "poll"
       ELSE /\ pc' = "deleteMoon"
            /\ UNCHANGED <<frames, polled, frameLog>>
    /\ UNCHANGED <<status, acquired, releaseLog, loaded, created, failure>>
    /\ UNCHANGED <<running, event, camera>>
    /\ UNCHANGED <<bodyVars, inputVars, envVars>>

\* SDL_PollEvent(&event) returned an event: handleInput(event, running, planet)
PollEvent(env) ==
    /\ pc = "poll"
    /\ env.countPolls => polled < env.maxPoll
    /\ frames <= env.interactFrames
    /\ \E e \in env.events, t \in Ticks :
         LET s == handleInput(InputState, e, t)
             moved == e.type = "MOUSEMOTION" /\ dragging
         IN  /\ Abs(s.sphereRotationY) <= MaxRotY
             /\ event' = e
             /\ polled' = IF env.countPolls THEN polled + 1 ELSE polled
             /\ running' = s.running
             /\ zoom' = s.zoom
             /\ userRotationX' = s.userRotationX
             /\ userRotationY' = s.userRotationY
             /\ sphereRotationX' = s.sphereRotationX
             /\ sphereRotationY' = s.sphereRotationY
             /\ dragging' = s.dragging
             /\ lastMouseX' = s.lastMouseX
             /\ lastMouseY' = s.lastMouseY
             /\ lastInteractionTime' = s.lastInteractionTime
             /\ now' = IF moved THEN t ELSE now
             /\ decaySteps' = IF moved THEN 0 ELSE decaySteps
    /\ UNCHANGED <<procVars, frames, frameLog, camera>>
    /\ UNCHANGED <<moonOrbitAngle, rotationY, orbitAngle, positionAngle>>

\* mutant: the loop is left as soon as the drain has seen the quit
PollEmpty_BreakOnQuit ==
    /\ pc = "poll"
    /\ frameLog' = Append(frameLog, "drain")
    /\ pc' = IF running THEN "planetUpdate" ELSE "deleteMoon"
    /\ UNCHANGED <<status, acquired, releaseLog, loaded, created, failure>>
    /\ UNCHANGED <<running, event, polled, frames, camera>>
    /\ UNCHANGED <<bodyVars, inputVars, envVars>>

\* mutant: the update calls are missing from the loop
PollEmpty_SkipUpdate ==
    /\ pc = "poll"
    /\ frameLog' = Append(frameLog, "drain")
    /\ pc' = "camera"
    /\ UNCHANGED <<status, acquired, releaseLog, loaded, created, failure>>
    /\ UNCHANGED <<running, event, polled, frames, camera>>
    /\ UNCHANGED <<bodyVars, inputVars, envVars>>

\* SDL_PollEvent returned 0: the drain is over
PollEmpty ==
    /\ pc = "poll"
    /\ frameLog' = Append(frameLog, "drain")
    /\ pc' = "planetUpdate"
    /\ UNCHANGED <<status, acquired, releaseLog, loaded, created, failure>>
    /\ UNCHANGED <<running, event, polled, frames, camera>>
    /\ UNCHANGED <<bodyVars, inputVars, envVars>>

\* Moon::update
MoonUpdate(a) == Wrap360(a + MOON_STEP)

\* Planet::update, the moon's update included
PlanetUpdate ==
    /\ pc = "planetUpdate"
    /\ \E currentTime \in Ticks :
         LET idle == IdleElapsed(currentTime, lastInteractionTime)
         IN  /\ now' = currentTime
             /\ rotationY' = Wrap360(rotationY + passiveRotationSpeed)
             /\ orbitAngle' = Wrap360(orbitAngle + orbitSpeed)
             /\ positionAngle' = orbitAngle'
             /\ userRotationX' = IF idle /\ userRotationX # 0
                                 THEN DecayX(userRotationX)
                                 ELSE userRotationX
             /\ moonOrbitAngle' = MoonUpdate(moonOrbitAngle)
             /\ decaySteps' = IF idle /\ userRotationX # 0
                               THEN decaySteps + 1
                               ELSE decaySteps
    /\ frameLog' = Append(frameLog, "planetUpdate")
    /\ pc' = "sunUpdate"
    /\ UNCHANGED <<status, acquired, releaseLog, loaded, created, failure>>
    /\ UNCHANGED <<running, event, polled, frames, camera>>
    /\ UNCHANGED <<userRotationY, zoom, inputVars>>

\* Sun::update does nothing
SunUpdate ==
    /\ pc = "sunUpdate"
    /\ frameLog' = Append(frameLog, "sunUpdate")
    /\ pc' = "camera"
    /\ UNCHANGED <<status, acquired, releaseLog, loaded, created, failure>>
    /\ UNCHANGED <<running, event, polled, frames, camera>>
    /\ UNCHANGED <<bodyVars, inputVars, envVars>>

\* glClear, the light, gluLookAt(positionX, 0, positionZ + zoom, positionX, 0, positionZ, ...)
PlaceCamera ==
    /\ pc = "camera"
    /\ camera' = [angle |-> positionAngle, zoom |-> zoom]
    /\ frameLog' = Append(frameLog, "camera")
    /\ pc' = "sunRender"
    /\ UNCHANGED <<status, acquired, releaseLog, loaded, created, failure>>
    /\ UNCHANGED <<running, event, polled, frames>>
    /\ UNCHANGED <<bodyVars, inputVars, envVars>>

\* Sun::render
SunRender ==
    /\ pc = "sunRender"
    /\ frameLog' = Append(frameLog, "sunRender")
    /\ pc' = "planetRender"
    /\ UNCHANGED <<status, acquired, releaseLog, loaded, created, failure>>
    /\ UNCHANGED <<running, event, polled, frames, camera>>
    /\ UNCHANGED <<bodyVars, inputVars, envVars>>

\* Planet::render, the moon's render included
PlanetRender ==
    /\ pc = "planetRender"
    /\ frameLog' = Append(frameLog, "planetRender")
    /\ pc' = "present"
    /\ UNCHANGED <<status, acquired, releaseLog, loaded, created, failure>>
    /\ UNCHANGED <<running, event, polled, frames, camera>>
    /\ UNCHANGED <<bodyVars, inputVars, envVars>>

\* SDL_GL_SwapWindow
Present ==
    /\ pc = "present"
    /\ frameLog' = Append(frameLog, "present")
    /\ pc' = "loopTop"
    /\ UNCHANGED <<status, acquired, releaseLog, loaded, created, failure>>
    /\ UNCHANGED <<running, event, polled, frames, camera>>
    /\ UNCHANGED <<bodyVars, inputVars, envVars>>

----------------------------------------------------------------------------
(* Shutdown: delete moon; IMG_Quit(); cleanup(window, context); return 0.  *)

DeleteMoon ==
    /\ pc = "deleteMoon"
    /\ releaseLog' = Append(releaseLog, "moon")
    /\ pc' = "IMG_Quit"
    /\ UNCHANGED <<status, acquired, loaded, created, failure>>
    /\ UNCHANGED <<loopVars, bodyVars, inputVars, envVars>>

IMG_Quit ==
    /\ pc = "IMG_Quit"
    /\ releaseLog' = Append(releaseLog, "img")
    /\ pc' = "cleanup"
    /\ UNCHANGED <<status, acquired, loaded, created, failure>>
    /\ UNCHANGED <<loopVars, bodyVars, inputVars, envVars>>

Cleanup ==
    /\ pc = "cleanup"
    /\ releaseLog' = cleanup(releaseLog)
    /\ pc' = "exited"
    /\ status' = EXIT_SUCCESS
    /\ UNCHANGED <<acquired, loaded, created, failure>>
    /\ UNCHANGED <<loopVars, bodyVars, inputVars, envVars>>

----------------------------------------------------------------------------
(* Environments and specifications.                                        *)

\* every kind of event, few frames
EnvFull ==
    [events |-> {QuitEvent, OtherEvent} \cup WheelEvents
                  \cup MouseEvents({100}, MouseYs),
     countPolls |-> TRUE, maxPoll |-> MaxPoll, maxFrames |-> MaxFrames, interactFrames |-> MaxFrames]

\* the wheel, drains of any length
EnvZoom ==
    [events |-> {QuitEvent, OtherEvent} \cup WheelEvents,
     countPolls |-> FALSE, maxPoll |-> 0,
     maxFrames |-> MaxFrames, interactFrames |-> MaxFrames]

\* the mouse only, with small drags, whose decay completes within a few
\* iterations, and large ones, which reach the clamp
EnvDecay ==
    [events |-> {QuitEvent} \cup MouseEvents({100}, DecayMouseYs)
                  \cup MotionEvents(MouseXs, DecayMouseYs),
     countPolls |-> TRUE, maxPoll |-> MaxPoll, maxFrames |-> MaxFrames,
     interactFrames |-> MaxFrames]

\* a quit among other events
EnvQuit ==
    [events |-> {QuitEvent, OtherEvent, [type |-> "MOUSEWHEEL", y |-> 1]},
     countPolls |-> TRUE, maxPoll |-> MaxPoll, maxFrames |-> MaxFrames, interactFrames |-> MaxFrames]

\* a drag in the first iterations, then a long idle run
EnvIdle ==
    [events |-> {QuitEvent} \cup MouseEvents({100}, IdleMouseYs),
     countPolls |-> TRUE, maxPoll |-> MaxPoll, maxFrames |-> MaxIdleFrames,
     interactFrames |-> InteractFrames]

\* more than a full turn of every angle
EnvSpin ==
    [events |-> {QuitEvent},
     countPolls |-> TRUE, maxPoll |-> 1, maxFrames |-> MaxSpinFrames, interactFrames |-> MaxSpinFrames]

Next(env) ==
    \/ SDL_Init
    \/ SDL_CreateWindow
    \/ SDL_GL_CreateContext
    \/ IMG_Init
    \/ loadTexture
    \/ CreateBodies
    \/ LoopTop(env)
    \/ PollEvent(env)
    \/ PollEmpty
    \/ PlanetUpdate
    \/ SunUpdate
    \/ PlaceCamera
    \/ SunRender
    \/ PlanetRender
    \/ Present
    \/ DeleteMoon
    \/ IMG_Quit
    \/ Cleanup

Spec == Init /\ [][Next(EnvFull)]_vars
SpecZoom == Init /\ [][Next(EnvZoom)]_vars
SpecDecay == Init /\ [][Next(EnvDecay)]_vars
SpecIdle == Init /\ [][Next(EnvIdle)]_vars
SpecSpin == Init /\ [][Next(EnvSpin)]_vars
\* the program keeps running: main is the only thread and no step of it blocks
\* for ever (a drain ends once the queue is empty)
SpecFair == Init /\ [][Next(EnvQuit)]_vars /\ WF_vars(Next(EnvQuit))

----------------------------------------------------------------------------
(* Steps, as seen from a pair of states.                                   *)

\* handleInput ran: PollEvent is the only step that stays in the drain
InputStep == pc = "poll" /\ pc' = "poll"

\* Planet::update ran
UpdateStep == pc = "planetUpdate" /\ pc' = "sunUpdate"

\* handleInput ran on a mouse motion while dragging
DragMotionStep == InputStep /\ event'.type = "MOUSEMOTION" /\ dragging

----------------------------------------------------------------------------
(* C1: in every reachable state the planet's zoom is within [2.1, 20.0]    *)
(* inclusive, whatever wheel events, other events and update ticks came.   *)
C1_ZoomInRange == zoom >= MIN_ZOOM /\ zoom <= MAX_ZOOM

\* the upper clamp has acted: the zoom shown in the last frame was 19.6, off
\* the 0.5 grid of 5.0 (so the lower clamp acted before), and a wheel-down
\* event has now brought it to 20.0
C1_Witness ==
    /\ zoom = MAX_ZOOM
    /\ camera.zoom = MAX_ZOOM - 4
    /\ event = [type |-> "MOUSEWHEEL", y |-> -1]

(* C3: after any number of update ticks the moon's orbit angle, the        *)
(* planet's passive spin angle and the planet's orbit angle are each       *)
(* within [0, 360).                                                        *)
C3_AnglesWrapped ==
    /\ 0 <= moonOrbitAngle /\ moonOrbitAngle < FULL_TURN
    /\ 0 <= rotationY /\ rotationY < FULL_TURN
    /\ 0 <= orbitAngle /\ orbitAngle < FULL_TURN

\* the update that completes the planet's full turn has run: every angle has
\* wrapped (the moon's for the fifth time)
C3_Witness ==
    /\ frames = FULL_TURN \div orbitSpeed
    /\ pc = "sunUpdate"
    /\ orbitAngle = 0 /\ rotationY = 0 /\ moonOrbitAngle = 0

(* C2: once the idle delay of 2000 ms has elapsed since the last drag      *)
(* motion, every Planet::update moves a non-zero user-X-rotation strictly  *)
(* closer to 0 without changing its sign; the rotation is exactly 0 after  *)
(* at most 80 such updates, and it stays 0 until the next drag motion.     *)
C2_IdleDecay ==
    /\ [][UpdateStep /\ IdleElapsed(now', lastInteractionTime) /\ userRotationX # 0
            => /\ Abs(userRotationX') < Abs(userRotationX)
               /\ userRotationX' * userRotationX >= 0
               /\ decaySteps' = decaySteps + 1]_vars
    /\ [](/\ decaySteps <= DecayTicks
          /\ Abs(userRotationX) <= MAX_TILT - decaySteps * DECAY_STEP)
    /\ [][userRotationX = 0 /\ ~DragMotionStep => userRotationX' = 0]_vars

\* a tilt of 40 degrees has decayed to exactly 0 in 80 updates
C2_Witness ==
    /\ decaySteps = DecayTicks
    /\ userRotationX = 0
    /\ sphereRotationX = MAX_TILT

(* C4: an iteration of the main loop performs, in this order and each      *)
(* once: the drain of the pending events, Planet::update (the moon's       *)
(* included), Sun::update, the camera placement from the position and zoom *)
(* just updated, Sun::render, Planet::render, present.  Nothing is updated *)
(* outside Planet::update and no event is handled once the drain is over.  *)
StepPc ==
    <<"poll", "planetUpdate", "sunUpdate", "camera", "sunRender",
      "planetRender", "present">>

C4_FrameOrder ==
    /\ [](\A n \in 1..Len(StepPc) :
            pc = StepPc[n] => frameLog = SubSeq(FullFrame, 1, n - 1))
    /\ [](pc = "loopTop" /\ frames > 0 => frameLog = FullFrame)
    /\ [](pc \in {"sunRender", "planetRender", "present"}
            => /\ positionAngle = orbitAngle
               /\ camera = [angle |-> positionAngle, zoom |-> zoom])
    /\ [][frameLog' # frameLog
            => \/ frameLog' = <<>> /\ pc = "loopTop" /\ running
               \/ /\ Len(frameLog) < Len(FullFrame)
                  /\ frameLog' = Append(frameLog, FullFrame[Len(frameLog) + 1])]_vars
    /\ [][<<event, running, zoom, userRotationY, inputVars>>'
              # <<event, running, zoom, userRotationY, inputVars>>
            => InputStep /\ frameLog = <<>>]_vars
    /\ [][<<moonOrbitAngle, rotationY, orbitAngle, positionAngle>>'
              # <<moonOrbitAngle, rotationY, orbitAngle, positionAngle>>
            => UpdateStep]_vars

\* a second iteration, in which an event was handled, is complete
C4_Witness ==
    /\ pc = "loopTop"
    /\ frames = 2
    /\ polled > 0
    /\ frameLog = FullFrame

(* C5: on every path by which the process ends, every acquired texture,    *)
(* the image subsystem, the graphics context and the window are each       *)
(* released exactly once, in reverse order of acquisition.                 *)
Owned == {"texture", "img", "context", "window"}

IsOwned(r) == r \in Owned

C5_ReleasedOnceInReverse ==
    pc = "exited"
        => /\ \A r \in Owned : Count(releaseLog, r) = Count(acquired, r)
           /\ SelectSeq(releaseLog, IsOwned) = Reverse(SelectSeq(acquired, IsOwned))

(* C6: the exit status is 0 exactly when the main loop was entered and     *)
(* left through a quit event; a failure of SDL_Init, of the window or      *)
(* context creation, of IMG_Init, of IMG_Load or of the pixel-format check *)
(* ends the process at once with status 1, no body created and no frame    *)
(* run.                                                                    *)
C6_ExitStatus ==
    /\ status \in {-1, EXIT_SUCCESS, EXIT_FAILURE}
    /\ (pc = "exited") = (status # -1)
    /\ (status = EXIT_SUCCESS) = (pc = "exited" /\ frames >= 1 /\ ~running)
    /\ (status = EXIT_FAILURE) = (failure # "none")
    /\ failure # "none"
         => pc = "exited" /\ status = EXIT_FAILURE /\ ~created /\ frames = 0

\* the third texture decoded to an unsupported pixel format
C6_Witness ==
    /\ pc = "exited"
    /\ status = EXIT_FAILURE
    /\ failure = "format"
    /\ loaded = 2
    /\ ~created

(* C7: a mouse motion while dragging adds dx*0.5 to the planet's user Y    *)
(* rotation and subtracts dy*0.5 from its user X rotation, clamps X to     *)
(* [-40, 40] and records the mouse position; a mouse motion while not      *)
(* dragging changes neither rotation, nor the position, nor the timestamp. *)
Clamp40(x) ==
    IF x > MAX_TILT THEN MAX_TILT ELSE IF x < -MAX_TILT THEN -MAX_TILT ELSE x

C7_DragMotion ==
    [][InputStep /\ event'.type = "MOUSEMOTION"
         => IF dragging
            THEN /\ userRotationY'
                      = userRotationY + (event'.x - lastMouseX) * DRAG_SCALE
                 /\ userRotationX'
                      = Clamp40(userRotationX - (event'.y - lastMouseY) * DRAG_SCALE)
                 /\ lastMouseX' = event'.x
                 /\ lastMouseY' = event'.y
            ELSE UNCHANGED <<userRotationX, userRotationY, sphereRotationX,
                             sphereRotationY, lastMouseX, lastMouseY,
                             lastInteractionTime>>]_vars

(* C8, as stated: a left button-down resets the dragging flag and the last *)
(* mouse position and clears the accumulated rotation and the timestamp.   *)
LeftDownStep ==
    InputStep /\ event'.type = "MOUSEBUTTONDOWN" /\ event'.button = "LEFT"

C8_ResetOnDragStart ==
    [][LeftDownStep
         => /\ dragging'
            /\ lastMouseX' = event'.x /\ lastMouseY' = event'.y
            /\ sphereRotationX' = 0 /\ sphereRotationY' = 0
            /\ lastInteractionTime' \in {0, now}]_vars

(* C8, amended: a left button-down sets the dragging flag and sets the     *)
(* last mouse position to the event's; the accumulated rotation, the       *)
(* planet's user rotation and the timestamp are left as they were.         *)
C8_DragStartKeepsRotation ==
    [][LeftDownStep
         => /\ dragging'
            /\ lastMouseX' = event'.x /\ lastMouseY' = event'.y
            /\ UNCHANGED <<sphereRotationX, sphereRotationY, userRotationX,
                           userRotationY, lastInteractionTime>>]_vars

\* a drag session has just begun with rotation accumulated by an earlier one
C8_Witness ==
    /\ pc = "poll"
    /\ event.type = "MOUSEBUTTONDOWN" /\ event.button = "LEFT"
    /\ dragging
    /\ lastMouseX = event.x /\ lastMouseY = event.y
    /\ sphereRotationX # 0
    /\ sphereRotationY # 0
    /\ lastInteractionTime > 0

(* C9: once a quit event has been handled the running flag stays false and *)
(* no further iteration starts; the iteration in which it was handled is   *)
(* completed (the rest of the drain, then one update, render and present), *)
(* and the process then shuts down with status 0.                          *)
C9_QuitIsFinal ==
    /\ [][~running => ~running' /\ frames' = frames]_vars
    /\ [][~running /\ pc = "poll" => pc' \in {"poll", "planetUpdate"}]_vars
    /\ [](~running /\ pc \in {"deleteMoon", "IMG_Quit", "cleanup", "exited"}
            => frameLog = FullFrame)
    /\ [](pc \in {"deleteMoon", "IMG_Quit", "cleanup"} => ~running)
    /\ (~running ~> (pc = "exited" /\ status = EXIT_SUCCESS))

\* the process has shut down after a wheel event that was handled behind the
\* quit event, in the same drain
C9_Witness ==
    /\ pc = "exited"
    /\ status = EXIT_SUCCESS
    /\ ~running
    /\ event.type = "MOUSEWHEEL"
    /\ zoom = INIT_ZOOM - ZOOM_STEP

(* C10: the idle decay changes the planet's user-X-rotation only.  The     *)
(* planet's user-Y-rotation equals sphereRotationY, sphereRotationX is     *)
(* within [-40, 40], and the user-X-rotation is 0 or has the sign of       *)
(* sphereRotationX and at most its magnitude; a drag motion sets the       *)
(* user-X-rotation to clamp(sphereRotationX - dy*0.5), also after a decay. *)
C10_AccumulatorsKept ==
    /\ [](/\ userRotationY = sphereRotationY
          /\ -MAX_TILT <= sphereRotationX /\ sphereRotationX <= MAX_TILT
          /\ \/ userRotationX = 0
             \/ /\ userRotationX * sphereRotationX > 0
                /\ Abs(userRotationX) <= Abs(sphereRotationX))
    /\ [][UpdateStep => UNCHANGED <<sphereRotationX, sphereRotationY, userRotationY>>]_vars
    /\ [][DragMotionStep
            => userRotationX'
                 = Clamp40(sphereRotationX - (event'.y - lastMouseY) * DRAG_SCALE)]_vars

\* a decay has completed during a drag: the planet is level, the accumulator
\* still holds the tilt, and the next event of this drain may be a motion
C10_Witness ==
    /\ pc = "poll"
    /\ polled = 0
    /\ dragging
    /\ userRotationX = 0
    /\ sphereRotationX # 0
    /\ decaySteps > 0

====
